---- MODULE Spec2Model ----
(***************************************************************************)
(* Model of the search subsystem of the polyglot flashcard application.    *)
(* JavaScript strings are sequences of one-character strings, so that      *)
(* indexOf, split and charCodeAt comparisons are computed character by     *)
(* character.  Array positions are 0-based in the source; sequences here   *)
(* are 1-based and every operator says which convention it returns.        *)
(***************************************************************************)
EXTENDS Integers, Sequences, FiniteSets, TLC

VARIABLES
    \* the application (src/unnamed/part_000)
    words,          \* state.words: the loaded corpus
    fuse,           \* state.fuse: TRUE when the Fuse index was built, FALSE for null
    loadState,      \* where loadWords() stands: "pending", "ok" or "failed"
    filter,         \* state.filter
    searchOpen,     \* state.searchOpen
    searchQuery,    \* state.searchQuery, as typed
    suggestions,    \* the data-idx of the suggestion buttons shown; <<>> when hidden
    call,           \* the latest call of searchIndices: its argument, the corpus
                    \* it read, what it returned and the matchers it invoked
    deck,           \* state.deck: corpus indices, in the order of the cards
    currentIndex,   \* state.currentIndex: 0-based position in the deck
    seen,           \* state.seen
    frontLang,      \* state.frontLang
    blindMode,      \* state.blindMode
    windowFuse,     \* whether initFuse found window.Fuse to be a function
    \* one call of levenshteinBounded
    levA, levB, levMax, levOut,
    \* one entry of the loop of offlineSearch
    entQ,           \* q
    entHay,         \* hay
    entDone,        \* whether the entry was scored
    entBest,        \* what bestTokenDistance(q, hay) returns
    entScore,       \* the score the loop body leaves the entry with
    \* norm applied to a string, and again to what it returned
    normIn, normOut, normAgain,
    \* the service worker (src/sw.js)
    swState,        \* "parsed", "installed" or "activated"
    oldCaches,      \* whether a cache of another version exists
    shellCache,     \* the cache SHELL_CACHE: the response stored for each URL
    dataCache,      \* the cache DATA_CACHE
    swRequest,      \* the request of the latest fetch event
    swHad,          \* what caches.match(request) held when the event came
    swNetwork,      \* what fetch(request) did in the handler, if it was called
    swResponse      \* what the handler responded with

appVars ==
    <<words, fuse, loadState, filter, searchOpen, searchQuery, suggestions, call,
      deck, currentIndex, seen, frontLang, blindMode, windowFuse>>

levVars == <<levA, levB, levMax, levOut>>

entVars == <<entQ, entHay, entDone, entBest, entScore>>

normVars == <<normIn, normOut, normAgain>>

swVars ==
    <<swState, oldCaches, shellCache, dataCache, swRequest, swHad, swNetwork,
      swResponse>>

vars == <<appVars, levVars, entVars, normVars, swVars>>

(***************************************************************************)
(* Bounds of the model.                                                    *)
(***************************************************************************)
MaxLen == 4
MaxBound == 2
MaxWords == 2
MaxHayTokens == 3
MaxBodies == 2

LevAlphabet == {"a", "b", "c"}
LevAlphabetB == {"a", "b"}

(***************************************************************************)
(* Characters.  A character is a one-character string; the characters      *)
(* outside ASCII that the normalizer is about are named: "e+acute" is      *)
(* U+00E9, "acute" is the combining mark U+0301 and "cgj" is U+034F, the   *)
(* combining grapheme joiner, both in the block U+0300-U+036F; "sheva"     *)
(* (U+05B0) and "etnahta" (U+0591) are combining marks outside that block. *)
(***************************************************************************)
LowerLetters ==
    <<"a", "b", "c", "d", "e", "f", "g", "h", "i", "j", "k", "l", "m",
      "n", "o", "p", "q", "r", "s", "t", "u", "v", "w", "x", "y", "z">>
UpperLetters ==
    <<"A", "B", "C", "D", "E", "F", "G", "H", "I", "J", "K", "L", "M",
      "N", "O", "P", "Q", "R", "S", "T", "U", "V", "W", "X", "Y", "Z">>
Range(f) == {f[x] : x \in DOMAIN f}
Digits == {"0", "1", "2", "3", "4", "5", "6", "7", "8", "9"}
Whitespace == {" "}
CombiningMarks == {"acute", "cgj"}
OtherMarks == {"sheva", "etnahta"}
Chars ==
    Range(LowerLetters) \cup Range(UpperLetters) \cup Digits \cup Whitespace
        \cup CombiningMarks \cup OtherMarks \cup {"|", "e+acute"}
\* the class [a-z0-9] of the tokenizer
TokenChars == Range(LowerLetters) \cup Digits


Min2(x, y) == IF x <= y THEN x ELSE y
Max2(x, y) == IF x >= y THEN x ELSE y
Abs(x) == IF x < 0 THEN -x ELSE x

StringsUpTo(A, n) == UNION {[1..k -> A] : k \in 0..n}

NoValue == -1

(***************************************************************************)
(* levenshteinBounded: the inner loop over j fills cur[0..bl] from         *)
(* prev[0..bl]; rows are sequences whose element j+1 is the source's       *)
(* element j.                                                              *)
(***************************************************************************)
\* a row minimum that looks at the first cell only
RowMinFirst(row) == row[1]

RECURSIVE RowMin(_)
RowMin(row) ==
    IF Len(row) = 1 THEN row[1] ELSE Min2(row[1], RowMin(Tail(row)))

\* FillRow without the deletion term prev[j] + 1
RECURSIVE FillRowNoDelete(_, _, _, _, _)
FillRowNoDelete(prev, cur, ai, b, j) ==
    IF j > Len(b) THEN cur
    ELSE LET cost == IF ai = b[j] THEN 0 ELSE 1
             val == Min2(cur[j] + 1, prev[j] + cost)
         IN FillRowNoDelete(prev, Append(cur, val), ai, b, j + 1)

RECURSIVE FillRow(_, _, _, _, _)
FillRow(prev, cur, ai, b, j) ==
    IF j > Len(b) THEN cur
    ELSE LET cost == IF ai = b[j] THEN 0 ELSE 1
             val == Min2(Min2(prev[j + 1] + 1, cur[j] + 1), prev[j] + cost)
         IN FillRow(prev, Append(cur, val), ai, b, j + 1)

\* LevLoop giving up as soon as a row minimum reaches max
RECURSIVE LevLoopEager(_, _, _, _, _)
LevLoopEager(a, b, max, i, prev) ==
    IF i > Len(a)
    THEN [out |-> IF prev[Len(b) + 1] <= max THEN prev[Len(b) + 1] ELSE max + 1,
          exit |-> "end"]
    ELSE LET cur == FillRow(prev, <<i>>, a[i], b, 1)
         IN IF RowMin(cur) >= max THEN [out |-> max + 1, exit |-> "rowMin"]
            ELSE LevLoopEager(a, b, max, i + 1, cur)

\* the outer loop from row i on; the result names the return statement taken
RECURSIVE LevLoop(_, _, _, _, _)
LevLoop(a, b, max, i, prev) ==
    IF i > Len(a)
    THEN [out |-> IF prev[Len(b) + 1] <= max THEN prev[Len(b) + 1] ELSE max + 1,
          exit |-> "end"]
    ELSE LET cur == FillRow(prev, <<i>>, a[i], b, 1)
         IN IF RowMin(cur) > max THEN [out |-> max + 1, exit |-> "rowMin"]
            ELSE LevLoop(a, b, max, i + 1, cur)

\* row i of the table for a and b, filled as the inner loop fills it and
\* without the abort; row 0 is prev as initialized
RECURSIVE tableRow(_, _, _)
tableRow(a, b, i) ==
    IF i = 0 THEN [j \in 1..(Len(b) + 1) |-> j - 1]
    ELSE FillRow(tableRow(a, b, i - 1), <<i>>, a[i], b, 1)

levenshteinRun(a, b, max) ==
    LET al == Len(a)
        bl == Len(b)
    IN IF Abs(al - bl) > max THEN [out |-> max + 1, exit |-> "length"]
       ELSE IF al = 0
            THEN [out |-> IF bl <= max THEN bl ELSE max + 1, exit |-> "empty"]
       ELSE IF bl = 0
            THEN [out |-> IF al <= max THEN al ELSE max + 1, exit |-> "empty"]
       ELSE LevLoop(a, b, max, 1, [j \in 1..(bl + 1) |-> j - 1])

levenshteinBounded(a, b, max) == levenshteinRun(a, b, max).out

(***************************************************************************)
(* JavaScript string and array built-ins used by the search code.          *)
(***************************************************************************)
\* the value of `s ?? ""` is "" for null and undefined
Null == <<"null">>

\* the concatenation of ss[lo..hi], by halves
RECURSIVE FlattenRange(_, _, _)
FlattenRange(ss, lo, hi) ==
    IF lo > hi THEN <<>>
    ELSE IF lo = hi THEN ss[lo]
    ELSE LET mid == (lo + hi) \div 2
         IN FlattenRange(ss, lo, mid) \o FlattenRange(ss, mid + 1, hi)

Flatten(ss) == FlattenRange(ss, 1, Len(ss))

\* String.prototype.normalize("NFD"), the canonical decomposition of one
\* character
NFD(c) == IF c = "e+acute" THEN <<"e", "acute">> ELSE <<c>>

\* the canonical combining class of a character; 0 is a starter
ccc(c) ==
    CASE c = "acute" -> 230
      [] c = "etnahta" -> 220
      [] c = "sheva" -> 10
      [] OTHER -> 0

\* String.prototype.normalize("NFD"), the canonical ordering: the marks of
\* every maximal run of non-starters are put in ascending combining class,
\* marks of one class keeping their order
canonicalOrder(s) ==
    LET inRun(i, j) == \A m \in Min2(i, j)..Max2(i, j) : ccc(s[m]) > 0
        ahead(i) == {j \in DOMAIN s :
                        /\ inRun(i, j)
                        /\ \/ ccc(s[j]) < ccc(s[i])
                           \/ ccc(s[j]) = ccc(s[i]) /\ j < i}
        runStart(i) == CHOOSE k \in 1..i :
                           inRun(k, i) /\ (k = 1 \/ ccc(s[k - 1]) = 0)
        place(i) == IF ccc(s[i]) = 0 THEN i
                    ELSE runStart(i) + Cardinality(ahead(i))
    IN [k \in DOMAIN s |-> s[CHOOSE i \in DOMAIN s : place(i) = k]]

normalizeNFD(s) == canonicalOrder(Flatten([k \in DOMAIN s |-> NFD(s[k])]))

\* String.prototype.toLowerCase, one character
toLowerCase(c) ==
    IF c \in Range(UpperLetters)
    THEN LowerLetters[CHOOSE k \in DOMAIN UpperLetters : UpperLetters[k] = c]
    ELSE c

RECURSIVE trimStart(_)
trimStart(s) ==
    IF s # <<>> /\ Head(s) \in Whitespace THEN trimStart(Tail(s)) ELSE s

RECURSIVE trimEnd(_)
trimEnd(s) ==
    IF s # <<>> /\ s[Len(s)] \in Whitespace
    THEN trimEnd(SubSeq(s, 1, Len(s) - 1)) ELSE s

trim(s) == trimEnd(trimStart(s))

\* String.prototype.indexOf: 0-based position of the first occurrence, or -1
indexOf(hay, q) ==
    LET occ == {p \in 0..(Len(hay) - Len(q)) :
                    SubSeq(hay, p + 1, p + Len(q)) = q}
    IN IF occ = {} THEN -1 ELSE CHOOSE p \in occ : \A r \in occ : p <= r

includes(hay, t) == indexOf(hay, t) # -1

\* String.prototype.split on a regular expression /[^keep]+/: the pieces
\* between the maximal runs of characters outside keep, the empty pieces at
\* either end included.  The pieces of s[lo..hi] are those of its two halves,
\* joined where the halves meet: a separator run across the middle closes
\* one piece, anything else continues the piece across it.
RECURSIVE SplitRange(_, _, _, _)
SplitRange(s, keep, lo, hi) ==
    IF lo > hi THEN << <<>> >>
    ELSE IF lo = hi
         THEN (IF s[lo] \in keep THEN << <<s[lo]>> >> ELSE << <<>>, <<>> >>)
    ELSE LET mid == (lo + hi) \div 2
             left == SplitRange(s, keep, lo, mid)
             right == SplitRange(s, keep, mid + 1, hi)
             leftInit == SubSeq(left, 1, Len(left) - 1)
         IN IF s[mid] \notin keep /\ s[mid + 1] \notin keep
            THEN leftInit \o Tail(right)
            ELSE leftInit \o <<left[Len(left)] \o Head(right)>> \o Tail(right)

split(s, keep) == SplitRange(s, keep, 1, Len(s))

\* Array.prototype.join
RECURSIVE join(_, _)
join(parts, sep) ==
    IF parts = <<>> THEN <<>>
    ELSE IF Len(parts) = 1 THEN parts[1]
    ELSE parts[1] \o sep \o join(Tail(parts), sep)

IsTruthy(x) == x # Null /\ x # <<>>
IsLongToken(t) == Len(t) >= 3

(***************************************************************************)
(* norm and buildSearchText                                                *)
(***************************************************************************)
norm(s) ==
    LET str == IF s = Null THEN <<>> ELSE s
        decomposed == normalizeNFD(str)
        stripped == SelectSeq(decomposed, LAMBDA c : c \notin CombiningMarks)
        lowered == [k \in DOMAIN stripped |-> toLowerCase(stripped[k])]
    IN trim(lowered)

SearchFields ==
    <<"en", "fr", "es", "it", "lat", "fr_art", "es_art", "it_art",
      "fr_m", "fr_f", "es_m", "es_f", "it_m", "it_f">>

\* w is a record of the fields present in words.json; a field that is
\* absent reads as undefined
buildSearchText(w) ==
    LET parts == [k \in DOMAIN SearchFields |->
                     IF SearchFields[k] \in DOMAIN w
                     THEN w[SearchFields[k]] ELSE Null]
    IN norm(join(SelectSeq(parts, IsTruthy), <<" ", "|", " ">>))

(***************************************************************************)
(* bestTokenDistance                                                       *)
(***************************************************************************)
TokenLimit == 80
NoTokenBest == 99
SearchBound == 2

hayTokens(hay) == SelectSeq(split(hay, TokenChars), IsLongToken)

\* an iteration that keeps the latest distance instead of the least
bestStepLatest(q, t, best) ==
    IF Abs(Len(t) - Len(q)) > SearchBound THEN best
    ELSE levenshteinBounded(q, t, SearchBound)

\* one iteration of the loop: the new value of best
bestStep(q, t, best) ==
    IF Abs(Len(t) - Len(q)) > SearchBound THEN best
    ELSE LET d == levenshteinBounded(q, t, SearchBound)
         IN IF d < best THEN d ELSE best

\* the iterations k = lo .. hi - 1 in order, started with best; the loop
\* returns as soon as best is 0.  The range is run by halves, the first
\* half handing its best to the second.
RECURSIVE BestLoop(_, _, _, _, _)
BestLoop(q, tokens, lo, hi, best) ==
    IF lo >= hi THEN best
    ELSE IF hi = lo + 1 THEN bestStep(q, tokens[lo + 1], best)
    ELSE LET mid == (lo + hi) \div 2
             first == BestLoop(q, tokens, lo, mid, best)
         IN IF first = 0 THEN 0 ELSE BestLoop(q, tokens, mid, hi, first)

\* no limit on the tokens compared
tokenLimitNone(tokens) == Len(tokens)

tokenLimitOf(tokens) == Min2(Len(tokens), TokenLimit)

bestTokenDistance(q, hay) ==
    LET tokens == hayTokens(hay)
    IN BestLoop(q, tokens, 0, tokenLimitOf(tokens), NoTokenBest)

(***************************************************************************)
(* Scores.  A score is a fraction [num, den], compared by cross            *)
(* multiplication, which orders the fractions as the source's doubles are  *)
(* ordered: pos / 10000, 1 - hits / n and 2 + best / 10 are distinct       *)
(* doubles exactly when they are distinct fractions for the lengths in     *)
(* play.  Infinity is the fraction with denominator 0.                     *)
(***************************************************************************)
Frac(n, d) == [num |-> n, den |-> d]
Infinity == Frac(1, 0)
FracLess(x, y) == x.num * y.den < y.num * x.den
FracEq(x, y) == x.num * y.den = y.num * x.den
FracLeq(x, y) == x.num * y.den <= y.num * x.den

PosScale == 10000

(***************************************************************************)
(* offlineSearch                                                           *)
(***************************************************************************)
\* q.split(/\s+/).filter(Boolean)
queryTokens(q) == SelectSeq(split(q, Chars \ Whitespace), IsTruthy)

\* the count with the arguments of includes exchanged: t.includes(hay)
tokenHitsSwapped(qTokens, hay) ==
    Cardinality({k \in DOMAIN qTokens :
                    Len(qTokens[k]) >= 3 /\ includes(qTokens[k], hay)})

\* the number of query tokens of 3+ characters that occur in hay
tokenHits(qTokens, hay) ==
    Cardinality({k \in DOMAIN qTokens :
                    Len(qTokens[k]) >= 3 /\ includes(hay, qTokens[k])})

\* a denominator that counts the query tokens of 3+ characters only
overlapDenominatorKept(qTokens) ==
    Max2(1, Cardinality({k \in DOMAIN qTokens : Len(qTokens[k]) >= 3}))

\* the denominator of the token-overlap score
overlapDenominator(qTokens) == Max2(1, Len(qTokens))

overlapScore(hits, qTokens) ==
    LET n == overlapDenominator(qTokens)
    IN Frac(n - hits, n)

\* a substring score that forgets the position
substringScoreFlat(pos) == Frac(0, PosScale)

\* score = 0 + (pos / 10000)
substringScore(pos) == Frac(pos, PosScale)

\* the test best <= 2 written as best < 2
distanceAcceptedStrict(best) == best < SearchBound

distanceAccepted(best) == best <= SearchBound

\* the loop body scoring a near match best / 10, without the 2 in front
entryScoreNoBase(q, qTokens, hay) ==
    LET pos == indexOf(hay, q)
    IN IF pos # -1 THEN substringScore(pos)
       ELSE LET hits == tokenHits(qTokens, hay)
            IN IF hits > 0 THEN overlapScore(hits, qTokens)
               ELSE LET best == bestTokenDistance(q, hay)
                    IN IF distanceAccepted(best) THEN Frac(best, 10)
                       ELSE Infinity

\* the loop body trying the edit distance before the substring test
entryScoreDistanceFirst(q, qTokens, hay) ==
    LET best == bestTokenDistance(q, hay)
    IN IF distanceAccepted(best) THEN Frac(20 + best, 10)
       ELSE LET pos == indexOf(hay, q)
            IN IF pos # -1 THEN substringScore(pos)
               ELSE LET hits == tokenHits(qTokens, hay)
                    IN IF hits > 0 THEN overlapScore(hits, qTokens)
                       ELSE Infinity

\* the body of the loop for one entry: its score, or Infinity
entryScore(q, qTokens, hay) ==
    LET pos == indexOf(hay, q)
    IN IF pos # -1 THEN substringScore(pos)
       ELSE LET hits == tokenHits(qTokens, hay)
            IN IF hits > 0 THEN overlapScore(hits, qTokens)
               ELSE LET best == bestTokenDistance(q, hay)
                    IN IF distanceAccepted(best) THEN Frac(20 + best, 10)
                       ELSE Infinity

\* i is the 0-based corpus index; texts[i + 1] is state.words[i]._search
RECURSIVE scoreLoop(_, _, _, _, _)
scoreLoop(q, qTokens, texts, i, results) ==
    IF i >= Len(texts) THEN results
    ELSE LET hay == texts[i + 1]
         IN IF hay = <<>> THEN scoreLoop(q, qTokens, texts, i + 1, results)
            ELSE LET score == entryScore(q, qTokens, hay)
                 IN IF score # Infinity
                    THEN scoreLoop(q, qTokens, texts, i + 1,
                                   Append(results, [i |-> i, score |-> score]))
                    ELSE scoreLoop(q, qTokens, texts, i + 1, results)

\* a comparator that also puts a in front of b when the scores are equal
scoreBeforeOrTied(a, b) == FracLeq(a.score, b.score)

\* the comparator (a, b) => a.score - b.score is negative
scoreBefore(a, b) == FracLess(a.score, b.score)

\* Array.prototype.sort is stable (ECMAScript 2019): an element goes in
\* front of the first one the comparator puts strictly after it
insertSorted(sorted, x) ==
    LET later == {k \in DOMAIN sorted : scoreBefore(x, sorted[k])}
    IN IF later = {} THEN Append(sorted, x)
       ELSE LET k == CHOOSE m \in later : \A r \in later : m <= r
            IN SubSeq(sorted, 1, k - 1) \o <<x>> \o SubSeq(sorted, k, Len(sorted))

RECURSIVE sortLoop(_, _)
sortLoop(rest, sorted) ==
    IF rest = <<>> THEN sorted
    ELSE sortLoop(Tail(rest), insertSorted(sorted, Head(rest)))

sortByScore(results) == sortLoop(results, <<>>)

scoredResults(q, texts) ==
    sortByScore(scoreLoop(q, queryTokens(q), texts, 0, <<>>))

offlineSearch(q, texts) ==
    LET results == scoredResults(q, texts)
    IN [k \in DOMAIN results |-> results[k].i]

(***************************************************************************)
(* searchIndices.  Fuse is an external library, so a call that reaches it  *)
(* has several outcomes: the result is the set of the outcomes the call    *)
(* can have, each with the matchers it invoked.                            *)
(***************************************************************************)
MinQueryLength == 3

allIndices(ws) == [k \in DOMAIN ws |-> k - 1]

searchTexts(ws) == [k \in DOMAIN ws |-> ws[k]._search]

\* what state.fuse.search(q) maps to: Fuse answers with some of the entries,
\* best first, each at most once.  The answers drawn are no entry, any one
\* entry, and all the entries in corpus order or in the reverse order.
fuseAnswers(ws) ==
    {<<>>, allIndices(ws), [k \in DOMAIN ws |-> Len(ws) - k]}
        \cup {<<i>> : i \in 0..(Len(ws) - 1)}

queryIsShort(queryNorm) == Len(queryNorm) < MinQueryLength

\* searchIndices asking Fuse before it looks at the length of the query
searchIndicesFuseFirst(queryNorm, ws, fz) ==
    IF fz
    THEN {[indices |-> r, called |-> {"fuse.search"}] : r \in fuseAnswers(ws)}
    ELSE IF queryIsShort(queryNorm)
         THEN {[indices |-> allIndices(ws), called |-> {}]}
         ELSE {[indices |-> offlineSearch(queryNorm, searchTexts(ws)),
                called |-> {"offlineSearch"}]}

searchIndices(queryNorm, ws, fz) ==
    IF queryIsShort(queryNorm)
    THEN {[indices |-> allIndices(ws), called |-> {}]}
    ELSE IF fz
         THEN {[indices |-> r, called |-> {"fuse.search"}] : r \in fuseAnswers(ws)}
         ELSE {[indices |-> offlineSearch(queryNorm, searchTexts(ws)),
                called |-> {"offlineSearch"}]}

applyTypeFilter(indices, ws, flt) ==
    SelectSeq(indices,
              LAMBDA i : flt = "all"
                         \/ (i + 1 \in DOMAIN ws /\ ws[i + 1].w.type = flt))

MaxSuggestions == 8

\* renderSuggestions, called with the search open: the data-idx shown
renderSuggestions(indices, q, ws) ==
    IF Len(q) < MinQueryLength THEN <<>>
    ELSE LET shown == SubSeq(indices, 1, Min2(Len(indices), MaxSuggestions))
             items == SelectSeq(shown, LAMBDA i : i + 1 \in DOMAIN ws)
         IN [k \in DOMAIN items |-> ws[items[k] + 1].__i]

(***************************************************************************)
(* The inputs: the entries words.json may hold and the queries typed.      *)
(***************************************************************************)
sApple == <<"a", "p", "p", "l", "e">>
sAple == <<"a", "p", "l", "e">>
sRed == <<"r", "e", "d">>
sFiller == <<"x", "y", "z">>
sp == <<" ">>

Repeat(s, k) == [i \in 1..(k * Len(s)) |-> s[((i - 1) % Len(s)) + 1]]

RawWords ==
    { [type |-> "noun", en |-> <<"A">> \o Tail(sApple)],
      [type |-> "phrase", en |-> <<"a", " ", "r", "e", "d", " ", "a", "p", "p", "l", "e", " ", "f", "r", "u", "i", "t">>],
      [type |-> "noun", en |-> sApple, fr |-> sRed, es |-> <<>>],
      [type |-> "noun"],
      [type |-> "adj", en |-> <<"a", " ", "r", "e", "d">>],
      [type |-> "verb", en |-> sAple] }

Corpora == UNION {[1..n -> RawWords] : n \in 0..MaxWords}

Queries ==
    { <<"a", "b">>,
      sAple,
      <<" ", "A", "p", "p", "l", "e">>,
      sRed \o sp \o sApple,
      <<"a", " ", "r", "e", "d">>,
      <<"a", "p", "l", "e", "x">>,
      <<"z", "z", "z", "z", "z", "z">> }

(***************************************************************************)
(* The service worker (src/sw.js).  A response is a record of its ok flag, *)
(* its type and its body; a body is a pair, <<"v", k>> being version k of  *)
(* the resource as the network serves it.                                  *)
(***************************************************************************)
NetworkBodies == {<<"v", k>> : k \in 1..MaxBodies}

\* no entry in a cache: what caches.match resolves to is undefined
NoResponse == [ok |-> FALSE, type |-> "none", body |-> <<"none", 0>>]
\* fetch rejected
NetworkError == [ok |-> FALSE, type |-> "error", body |-> <<"rejected", 0>>]
\* new Response("[]", { headers: { "Content-Type": "application/json" } })
EmptyJson == [ok |-> TRUE, type |-> "default", body |-> <<"[]", 0>>]
\* new Response("Offline", { status: 503 })
Offline == [ok |-> FALSE, type |-> "default", body |-> <<"Offline", 0>>]

WordsUrl == "/words.json?v=2"
IndexUrl == "/index.html"
CdnUrl == "https://cdn.jsdelivr.net/npm/fuse.js@6.6.2"
SHELL_URLS == {"/", IndexUrl, "/app.js", CdnUrl}
SwUrls == SHELL_URLS \cup {WordsUrl}

\* url.pathname.startsWith("/words.json")
IsWordsPath(url) == url = WordsUrl

\* the requests the page makes: the navigation, its scripts and the corpus
SwRequests ==
    { [url |-> "/", mode |-> "navigate"],
      [url |-> IndexUrl, mode |-> "navigate"],
      [url |-> "/app.js", mode |-> "no-cors"],
      [url |-> CdnUrl, mode |-> "no-cors"],
      [url |-> WordsUrl, mode |-> "cors"] }

\* what fetch(request) can do: reject, or resolve with a response that is ok,
\* not ok, or, for the cross-origin script, opaque
NetworkOutcomes(url) ==
    {NetworkError, [ok |-> FALSE, type |-> "basic", body |-> <<"error page", 0>>]}
        \cup {[ok |-> TRUE, type |-> "basic", body |-> b] : b \in NetworkBodies}
        \cup IF url = CdnUrl
             THEN {[ok |-> FALSE, type |-> "opaque", body |-> <<"opaque", 0>>]}
             ELSE {}

EmptyCache == [u \in SwUrls |-> NoResponse]

SwIdle ==
    /\ swState = "parsed"
    /\ oldCaches = TRUE
    /\ shellCache = EmptyCache
    /\ dataCache = EmptyCache
    /\ swRequest = [url |-> "/", mode |-> "none"]
    /\ swHad = NoResponse
    /\ swNetwork = NoResponse
    /\ swResponse = NoResponse

\* caches.match(request): the first cache holding the request answers; the
\* shell cache is the older of the two
cachesMatch(url) ==
    IF shellCache[url] # NoResponse THEN shellCache[url] ELSE dataCache[url]

\* the install listener: cache.add of every shell URL, each of which stores
\* the response fetched or fails and is ignored
Install ==
    /\ swState = "parsed"
    /\ swState' = "installed"
    /\ \E got \in [SHELL_URLS -> BOOLEAN], b \in NetworkBodies :
          shellCache' =
              [u \in SwUrls |->
                  IF u \in SHELL_URLS /\ got[u]
                  THEN (IF u = CdnUrl
                        THEN [ok |-> FALSE, type |-> "opaque",
                              body |-> <<"opaque", 0>>]
                        ELSE [ok |-> TRUE, type |-> "basic", body |-> b])
                  ELSE shellCache[u]]
    /\ UNCHANGED <<oldCaches, dataCache, swRequest, swHad, swNetwork,
                   swResponse, appVars, levVars, entVars, normVars>>

\* the activate listener: every cache but SHELL_CACHE and DATA_CACHE goes
Activate ==
    /\ swState = "installed"
    /\ swState' = "activated"
    /\ oldCaches' = FALSE
    /\ UNCHANGED <<shellCache, dataCache, swRequest, swHad, swNetwork,
                   swResponse, appVars, levVars, entVars, normVars>>

\* networkFirstData storing whatever the network answered
dataCachePutAlways(resp) == TRUE

\* if (networkResponse.ok): whether networkFirstData stores the response
dataCachePut(resp) == resp.ok

\* networkFirstData(request), fetch having done net.  cache.put is not
\* awaited; it is taken to complete with the handler.
networkFirstData(req, net) ==
    IF net # NetworkError
    THEN /\ dataCache' = IF dataCachePut(net)
                         THEN [dataCache EXCEPT ![req.url] = net]
                         ELSE dataCache
         /\ swResponse' = net
         /\ UNCHANGED shellCache
    ELSE /\ swResponse' = IF cachesMatch(req.url) # NoResponse
                          THEN cachesMatch(req.url) ELSE EmptyJson
         /\ UNCHANGED <<shellCache, dataCache>>

\* cacheFirstShell(request), fetch doing net if it is called
cacheFirstShell(req, net) ==
    IF cachesMatch(req.url) # NoResponse
    THEN /\ swResponse' = cachesMatch(req.url)
         /\ UNCHANGED <<shellCache, dataCache>>
    ELSE IF net # NetworkError
    THEN /\ shellCache' = IF net.ok \/ net.type = "opaque"
                          THEN [shellCache EXCEPT ![req.url] = net]
                          ELSE shellCache
         /\ swResponse' = net
         /\ UNCHANGED dataCache
    ELSE /\ swResponse' = IF req.mode = "navigate" /\ cachesMatch(IndexUrl) # NoResponse
                          THEN cachesMatch(IndexUrl) ELSE Offline
         /\ UNCHANGED <<shellCache, dataCache>>

\* the fetch listener
FetchEvent ==
    /\ swState = "activated"
    /\ \E req \in SwRequests :
          \E net \in NetworkOutcomes(req.url) :
             /\ swRequest' = req
             /\ swHad' = cachesMatch(req.url)
             /\ IF IsWordsPath(req.url)
                THEN swNetwork' = net /\ networkFirstData(req, net)
                ELSE /\ swNetwork' = IF cachesMatch(req.url) # NoResponse
                                     THEN NoResponse ELSE net
                     /\ cacheFirstShell(req, net)
    /\ UNCHANGED <<swState, oldCaches, appVars, levVars, entVars, normVars>>

\* the vocabulary and the query of the whole page
PageRawWords ==
    { [type |-> "noun", en |-> <<"A">> \o Tail(sApple)],
      [type |-> "verb", en |-> sAple] }

PageCorpora == UNION {[1..n -> PageRawWords] : n \in 0..MaxWords}

PageQueries == {sAple}

(***************************************************************************)
(* The application: the state after construction and its handlers.         *)
(***************************************************************************)
NoCall == [made |-> FALSE, query |-> <<>>, ws |-> <<>>, fz |-> FALSE,
           indices |-> <<>>, called |-> {}]

\* the values of data-type on the filter buttons and of data-lang on the
\* language buttons
FilterTypes == {"all", "noun", "verb"}
FrontLangs == {"en", "fr"}

AppInit ==
    /\ words = <<>>
    /\ deck = <<>>
    /\ currentIndex = 0
    /\ seen = {}
    /\ filter = "all"
    /\ frontLang = "en"
    /\ blindMode = FALSE
    /\ searchQuery = <<>>
    /\ searchOpen = FALSE
    /\ fuse = FALSE
    /\ windowFuse = FALSE
    /\ loadState = "pending"
    /\ suggestions = <<>>
    /\ call = NoCall

\* shuffle: Fisher-Yates with Math.random, any arrangement of the array
shuffle(array) ==
    IF array = <<>> THEN {<<>>}
    ELSE {[k \in DOMAIN array |-> array[f[k]]] : f \in Permutations(DOMAIN array)}

\* Array.prototype.indexOf: the 0-based position of x in array, or -1
arrayIndexOf(array, x) ==
    LET at == {k \in DOMAIN array : array[k] = x}
    IN IF at = {} THEN -1 ELSE (CHOOSE k \in at : \A m \in at : k <= m) - 1

\* render: what state.seen is after it; nothing is drawn and nothing added
\* when state.words[state.deck[state.currentIndex]] is undefined
render(ws, dk, ci, sn) ==
    IF ci + 1 \in DOMAIN dk /\ dk[ci + 1] + 1 \in DOMAIN ws
    THEN sn \cup {dk[ci + 1]}
    ELSE sn

\* initializeDeck over the corpus ws with the filter flt
initializeDeck(ws, flt, sn) ==
    /\ deck' \in shuffle(applyTypeFilter(allIndices(ws), ws, flt))
    /\ currentIndex' = 0
    /\ seen' = IF Len(deck') > 0 THEN render(ws, deck', 0, sn) ELSE sn

\* initFuse building the index whatever window.Fuse is
initFuseAlways(hasFuse) == TRUE

\* initFuse: state.fuse is set when typeof window.Fuse is "function"
initFuse(hasFuse) == IF ~hasFuse THEN FALSE ELSE TRUE

\* raw.map((w, i) => ({...w, __i: i, _search: buildSearchText(w)}))
loadedWords(raw) ==
    [k \in DOMAIN raw |->
        [w |-> raw[k], __i |-> k - 1, _search |-> buildSearchText(raw[k])]]

\* loadWords, the fetch having answered with one of the corpora given;
\* initFuse finds window.Fuse or not
LoadWordsFrom(corpora) ==
    /\ loadState = "pending"
    /\ \E raw \in corpora, hasFuse \in BOOLEAN :
          /\ words' = loadedWords(raw)
          /\ windowFuse' = hasFuse
          /\ fuse' = initFuse(hasFuse)
          /\ initializeDeck(words', filter, seen)
    /\ loadState' = "ok"
    /\ UNCHANGED <<filter, frontLang, blindMode, searchOpen, searchQuery,
                   suggestions, call, levVars, entVars, normVars, swVars>>

LoadWords == LoadWordsFrom(PageCorpora)

\* loadWords, the fetch or the parse having failed
LoadWordsFailed ==
    /\ loadState = "pending"
    /\ loadState' = "failed"
    /\ UNCHANGED <<words, fuse, windowFuse, filter, frontLang, blindMode,
                   deck, currentIndex, seen, searchOpen, searchQuery,
                   suggestions, call, levVars, entVars, normVars, swVars>>

\* updateSuggestions rebuilding the deck as well
updateSuggestionsAndDeck(open, query) ==
    /\ initializeDeck(words, filter, seen)
    /\ IF ~open
       THEN suggestions' = <<>> /\ UNCHANGED call
       ELSE LET q == norm(query)
            IN \E r \in searchIndices(q, words, fuse) :
                  /\ call' = [made |-> TRUE, query |-> q, ws |-> words,
                              fz |-> fuse, indices |-> r.indices,
                              called |-> r.called]
                  /\ suggestions' =
                        renderSuggestions(
                            applyTypeFilter(r.indices, words, filter), q, words)

\* updateSuggestions, with the search open or closed and the query given
updateSuggestions(open, query) ==
    /\ UNCHANGED <<deck, currentIndex, seen>>
    /\ IF ~open
       THEN suggestions' = <<>> /\ UNCHANGED call
       ELSE LET q == norm(query)
            IN \E r \in searchIndices(q, words, fuse) :
                  /\ call' = [made |-> TRUE, query |-> q, ws |-> words,
                              fz |-> fuse, indices |-> r.indices,
                              called |-> r.called]
                  /\ suggestions' =
                        renderSuggestions(
                            applyTypeFilter(r.indices, words, filter), q, words)

openSearch ==
    /\ searchOpen' = TRUE
    /\ updateSuggestions(TRUE, searchQuery)
    /\ UNCHANGED <<words, fuse, windowFuse, loadState, filter, frontLang,
                   blindMode, searchQuery, levVars, entVars, normVars, swVars>>

closeSearch ==
    /\ searchOpen' = FALSE
    /\ suggestions' = <<>>

\* toggleSearch on the search button, the search being closed
OpenSearch ==
    /\ ~searchOpen
    /\ openSearch

\* toggleSearch on the search button, a click on the backdrop or Escape in
\* the search field, the search being open
CloseSearch ==
    /\ searchOpen
    /\ closeSearch
    /\ UNCHANGED <<words, fuse, windowFuse, loadState, filter, frontLang,
                   blindMode, deck, currentIndex, seen, searchQuery, call,
                   levVars, entVars, normVars, swVars>>

\* the input event of the search field, which is in the open search panel
SearchInputFrom(queries) ==
    /\ searchOpen
    /\ \E v \in queries :
          /\ searchQuery' = v
          /\ updateSuggestions(searchOpen, v)
    /\ UNCHANGED <<words, fuse, windowFuse, loadState, filter, frontLang,
                   blindMode, searchOpen, levVars, entVars, normVars, swVars>>

SearchInput == SearchInputFrom(PageQueries)

SearchClear ==
    /\ searchOpen
    /\ searchQuery' = <<>>
    /\ updateSuggestions(searchOpen, <<>>)
    /\ UNCHANGED <<words, fuse, windowFuse, loadState, filter, frontLang,
                   blindMode, searchOpen, levVars, entVars, normVars, swVars>>

\* next stepping without wrapping
nextIndexNoWrap(ci, n) == ci + 1

\* (state.currentIndex + 1) % state.deck.length
nextIndex(ci, n) == (ci + 1) % n

\* (state.currentIndex - 1 + state.deck.length) % state.deck.length
prevIndex(ci, n) == (ci - 1 + n) % n

\* next, on the button, a key or a swipe; it returns at once on an empty deck
next ==
    IF Len(deck) = 0 THEN UNCHANGED vars
    ELSE /\ currentIndex' = nextIndex(currentIndex, Len(deck))
         /\ seen' = render(words, deck, currentIndex', seen)
         /\ UNCHANGED <<words, fuse, windowFuse, loadState, filter, frontLang,
                        blindMode, deck, searchOpen, searchQuery, suggestions,
                        call, levVars, entVars, normVars, swVars>>

prev ==
    IF Len(deck) = 0 THEN UNCHANGED vars
    ELSE /\ currentIndex' = prevIndex(currentIndex, Len(deck))
         /\ seen' = render(words, deck, currentIndex', seen)
         /\ UNCHANGED <<words, fuse, windowFuse, loadState, filter, frontLang,
                        blindMode, deck, searchOpen, searchQuery, suggestions,
                        call, levVars, entVars, normVars, swVars>>

\* a reshuffle that rearranges state.words itself
reshuffleCorpus ==
    /\ words' \in shuffle(words)
    /\ currentIndex' = 0
    /\ seen' = IF Len(deck) > 0 THEN render(words', deck, 0, seen) ELSE seen
    /\ UNCHANGED <<deck, fuse, windowFuse, loadState, filter, frontLang,
                   blindMode, searchOpen, searchQuery, suggestions, call,
                   levVars, entVars, normVars, swVars>>

reshuffle ==
    /\ deck' \in shuffle(deck)
    /\ currentIndex' = 0
    /\ seen' = IF Len(deck') > 0 THEN render(words, deck', 0, seen) ELSE seen
    /\ UNCHANGED <<words, fuse, windowFuse, loadState, filter, frontLang,
                   blindMode, searchOpen, searchQuery, suggestions, call,
                   levVars, entVars, normVars, swVars>>

\* newPos >= 0 ? newPos : 0
filterPosition(newPos, ci) == IF newPos >= 0 THEN newPos ELSE 0

\* the click listener of a filter button
FilterClick ==
    /\ \E t \in FilterTypes :
          /\ filter' = t
          /\ LET currentWordIdx ==
                     IF currentIndex + 1 \in DOMAIN deck
                     THEN deck[currentIndex + 1] ELSE NoValue
             IN /\ deck' \in shuffle(applyTypeFilter(allIndices(words), words, t))
                /\ currentIndex' =
                       filterPosition(arrayIndexOf(deck', currentWordIdx),
                                      currentIndex)
          /\ seen' = IF Len(deck') > 0
                     THEN render(words, deck', currentIndex', seen) ELSE seen
    /\ UNCHANGED <<words, fuse, windowFuse, loadState, frontLang, blindMode,
                   searchOpen, searchQuery, suggestions, call,
                   levVars, entVars, normVars, swVars>>

\* the click listener of a language button
LangClick ==
    /\ \E l \in FrontLangs : frontLang' = l
    /\ seen' = render(words, deck, currentIndex, seen)
    /\ UNCHANGED <<words, fuse, windowFuse, loadState, filter, blindMode, deck,
                   currentIndex, searchOpen, searchQuery, suggestions, call,
                   levVars, entVars, normVars, swVars>>

toggleBlindMode ==
    /\ blindMode' = ~blindMode
    /\ UNCHANGED <<words, fuse, windowFuse, loadState, filter, frontLang, deck,
                   currentIndex, seen, searchOpen, searchQuery, suggestions,
                   call, levVars, entVars, normVars, swVars>>

\* a selection that always replaces the deck by the selected card
selectedDeckAlone(dk, idx) == <<idx>>

\* the deck after a selection: as it was when it holds idx, [idx] otherwise
selectedDeck(dk, idx) == IF arrayIndexOf(dk, idx) >= 0 THEN dk ELSE <<idx>>

\* the click listener of the suggestions, on one of the buttons shown
SuggestionClick ==
    /\ \E k \in DOMAIN suggestions :
          LET idx == suggestions[k]
              pos == arrayIndexOf(deck, idx)
          IN /\ deck' = selectedDeck(deck, idx)
             /\ currentIndex' = IF pos >= 0 THEN pos ELSE 0
    /\ seen' = render(words, deck', currentIndex', seen)
    /\ closeSearch
    /\ UNCHANGED <<words, fuse, windowFuse, loadState, filter, frontLang,
                   blindMode, searchQuery, call, levVars, entVars, normVars, swVars>>

LevIdle == levA = <<>> /\ levB = <<>> /\ levMax = 0 /\ levOut = 0

EntIdle ==
    /\ entQ = <<>>
    /\ entHay = <<>>
    /\ entDone = FALSE
    /\ entBest = 0
    /\ entScore = Infinity

NormIdle == normIn = <<>> /\ normOut = <<>> /\ normAgain = <<>>

Init == AppInit /\ LevIdle /\ EntIdle /\ NormIdle /\ SwIdle

Next ==
    \/ LoadWords
    \/ LoadWordsFailed
    \/ OpenSearch
    \/ CloseSearch
    \/ SearchInput
    \/ SearchClear
    \/ SuggestionClick
    \/ next
    \/ prev
    \/ reshuffle
    \/ FilterClick
    \/ LangClick
    \/ toggleBlindMode

Spec == Init /\ [][Next]_vars

(***************************************************************************)
(* Specification of the search panel alone, over the larger vocabulary:    *)
(* the initial states are those loadWords leaves, the shuffle having kept  *)
(* the order of the corpus, and the steps are the handlers of the panel.   *)
(***************************************************************************)
SearchInit ==
    /\ \E raw \in Corpora, hasFuse \in BOOLEAN :
          /\ words = loadedWords(raw)
          /\ windowFuse = hasFuse
          /\ fuse = initFuse(hasFuse)
    /\ deck = allIndices(words)
    /\ currentIndex = 0
    /\ seen = IF Len(deck) > 0 THEN render(words, deck, 0, {}) ELSE {}
    /\ loadState = "ok"
    /\ filter = "all"
    /\ frontLang = "en"
    /\ blindMode = FALSE
    /\ searchQuery = <<>>
    /\ searchOpen = FALSE
    /\ suggestions = <<>>
    /\ call = NoCall
    /\ LevIdle
    /\ EntIdle
    /\ NormIdle
    /\ SwIdle

PanelInput == SearchInputFrom(Queries)

SearchNext ==
    \/ OpenSearch
    \/ CloseSearch
    \/ PanelInput
    \/ SearchClear

SpecSearch == SearchInit /\ [][SearchNext]_vars

(***************************************************************************)
(* Specification of the service worker alone.                              *)
(***************************************************************************)
SwInit == SwIdle /\ AppInit /\ LevIdle /\ EntIdle /\ NormIdle

SwNext == Install \/ Activate \/ FetchEvent

SpecSw == SwInit /\ [][SwNext]_vars

(***************************************************************************)
(* The Levenshtein distance by its definition: the least number of         *)
(* single-character insertions, deletions and substitutions.               *)
(***************************************************************************)
RECURSIVE trueLevenshteinDistance(_, _)
trueLevenshteinDistance(a, b) ==
    IF a = <<>> THEN Len(b)
    ELSE IF b = <<>> THEN Len(a)
    ELSE IF Head(a) = Head(b) THEN trueLevenshteinDistance(Tail(a), Tail(b))
    ELSE 1 + Min2(Min2(trueLevenshteinDistance(Tail(a), b),
                       trueLevenshteinDistance(a, Tail(b))),
                  trueLevenshteinDistance(Tail(a), Tail(b)))

(***************************************************************************)
(* Specification of the distance function alone: the inputs are drawn in   *)
(* the initial state and one call stores its result.                       *)
(***************************************************************************)
LevInit ==
    /\ levA \in StringsUpTo(LevAlphabet, MaxLen)
    /\ levB \in StringsUpTo(LevAlphabetB, MaxLen)
    /\ levMax \in 0..MaxBound
    /\ levOut = NoValue
    /\ AppInit
    /\ EntIdle
    /\ NormIdle
    /\ SwIdle

LevCall ==
    /\ levOut = NoValue
    /\ levOut' = levenshteinBounded(levA, levB, levMax)
    /\ UNCHANGED <<levA, levB, levMax, appVars, entVars, normVars, swVars>>

LevNext == LevCall

SpecLev == LevInit /\ [][LevNext]_vars

(***************************************************************************)
(* Specification of the loop body of offlineSearch alone: a normalized     *)
(* query of 3+ characters and a search text are drawn in the initial       *)
(* state, and one step scores the entry.  The search texts are the texts   *)
(* of up to MaxHayTokens words, and two long ones in which the word        *)
(* "apple" follows TokenLimit - 1 and TokenLimit filler tokens.            *)
(***************************************************************************)
HayWords == {sApple, sRed, <<"a">>, <<"|">>, sFiller}

longHay(k) == Repeat(sFiller \o sp, k) \o sApple

EntryHays ==
    {join(ws, sp) : ws \in UNION {[1..n -> HayWords] : n \in 0..MaxHayTokens}}
        \cup {longHay(TokenLimit - 1), longHay(TokenLimit)}

EntryQueries == {q \in {norm(v) : v \in Queries} : ~queryIsShort(q)}

EntInit ==
    /\ entQ \in EntryQueries
    /\ entHay \in EntryHays
    /\ entDone = FALSE
    /\ entBest = 0
    /\ entScore = Infinity
    /\ AppInit
    /\ LevIdle
    /\ NormIdle
    /\ SwIdle

EntryCall ==
    /\ ~entDone
    /\ entDone' = TRUE
    /\ entBest' = bestTokenDistance(entQ, entHay)
    /\ entScore' = entryScore(entQ, queryTokens(entQ), entHay)
    /\ UNCHANGED <<entQ, entHay, appVars, levVars, normVars, swVars>>

EntNext == EntryCall

SpecEntry == EntInit /\ [][EntNext]_vars

(***************************************************************************)
(* Specification of norm alone: the argument is drawn in the initial       *)
(* state, one call stores norm(s) and a second one norm(norm(s)).          *)
(***************************************************************************)
NormAlphabet ==
    {"a", "A", " ", "e+acute", "acute", "cgj", "sheva", "etnahta"}

NormInputs == {Null} \cup StringsUpTo(NormAlphabet, MaxLen)

NotCalled == <<"not called">>

NormInit ==
    /\ normIn \in NormInputs
    /\ normOut = NotCalled
    /\ normAgain = NotCalled
    /\ AppInit
    /\ LevIdle
    /\ EntIdle
    /\ SwIdle

NormCall ==
    /\ normOut = NotCalled
    /\ normOut' = norm(normIn)
    /\ UNCHANGED <<normIn, normAgain, appVars, levVars, entVars, swVars>>

NormCallAgain ==
    /\ normOut # NotCalled
    /\ normAgain = NotCalled
    /\ normAgain' = norm(normOut)
    /\ UNCHANGED <<normIn, normOut, appVars, levVars, entVars, swVars>>

NormNext == NormCall \/ NormCallAgain

SpecNorm == NormInit /\ [][NormNext]_vars

(***************************************************************************)
(* The claims.                                                             *)
(***************************************************************************)
Done == levOut # NoValue

\* C1: levenshteinBounded(a, b, m) is min(true distance, m + 1), for every
\* pair of strings (the empty ones included) and every bound m >= 0.
C1_BoundedIsMinOfTrue ==
    Done => levOut = Min2(trueLevenshteinDistance(levA, levB), levMax + 1)

\* a call that went through the whole table and found the distance to be
\* the bound itself
C1_Witness ==
    /\ Done
    /\ levenshteinRun(levA, levB, levMax).exit = "end"
    /\ levOut = levMax
    /\ levOut = 2
    /\ Len(levA) = Len(levB)

\* C2: levenshteinBounded is symmetric in its string arguments, also when
\* the row-minimum abort fires for one order of the arguments only.
C2_Symmetric ==
    Done => levOut = levenshteinBounded(levB, levA, levMax)

\* the abort fired for (a, b) and would not for (b, a)
C2_Witness ==
    /\ Done
    /\ levenshteinRun(levA, levB, levMax).exit = "rowMin"
    /\ levenshteinRun(levB, levA, levMax).exit = "end"

(***************************************************************************)
(* What the claims about searchIndices and offlineSearch read off a call.  *)
(***************************************************************************)
OfflineCall == call.made /\ call.called = {"offlineSearch"}

callText(i) == call.ws[i + 1]._search

\* q occurs in hay
Occurs(q, hay) ==
    \E p \in 0..(Len(hay) - Len(q)) : SubSeq(hay, p + 1, p + Len(q)) = q

\* the score the entry of corpus index i got in the call
callScore(i) == entryScore(call.query, queryTokens(call.query), callText(i))

\* C3: with a normalized query of fewer than 3 characters searchIndices
\* returns 0 .. n-1 in corpus order and invokes neither the Fuse matcher nor
\* offlineSearch, whether or not Fuse is loaded.
C3_ShortQueryReturnsAll ==
    (call.made /\ Len(call.query) < 3) =>
        /\ Len(call.indices) = Len(call.ws)
        /\ \A k \in DOMAIN call.indices : call.indices[k] = k - 1
        /\ call.called = {}

\* a short query searched with Fuse loaded over a corpus of two entries
C3_Witness ==
    /\ call.made
    /\ Len(call.query) = 2
    /\ call.fz
    /\ Len(call.ws) >= 2
    /\ call.indices = <<0, 1>>

\* C4: offlineSearch returns the indices by ascending score, and entries of
\* equal score in corpus order.
C4_SortedAndStable ==
    OfflineCall =>
        \A x, y \in DOMAIN call.indices :
            x < y =>
                /\ FracLeq(callScore(call.indices[x]), callScore(call.indices[y]))
                /\ FracEq(callScore(call.indices[x]), callScore(call.indices[y]))
                      => call.indices[x] < call.indices[y]

\* a result holding two entries of different text and equal score, which
\* only stability orders
C4_Witness ==
    /\ OfflineCall
    /\ \E x, y \in DOMAIN call.indices :
          /\ x < y
          /\ FracEq(callScore(call.indices[x]), callScore(call.indices[y]))
          /\ callText(call.indices[x]) # callText(call.indices[y])

(***************************************************************************)
(* The tiers, as the claims word them.                                     *)
(***************************************************************************)
\* the query tokens of 3+ characters that occur in hay
OverlapTokens(q, hay) ==
    LET qt == queryTokens(q)
    IN {k \in DOMAIN qt : Len(qt[k]) >= 3 /\ Occurs(qt[k], hay)}

SubstringMatch(q, hay) == Occurs(q, hay)
OverlapMatch(q, hay) == ~Occurs(q, hay) /\ OverlapTokens(q, hay) # {}
NearMatchOnly(q, hay) == ~Occurs(q, hay) /\ OverlapTokens(q, hay) = {}

InResult(i) == \E k \in DOMAIN call.indices : call.indices[k] = i
\* the place of corpus index i in the result
PlaceOf(i) == CHOOSE k \in DOMAIN call.indices : call.indices[k] = i
CallEntries == 0..(Len(call.ws) - 1)

\* C5: in the result of offlineSearch every entry matched by exact substring
\* comes before every entry matched by token overlap or by edit distance
\* only.
C5_SubstringTierFirst ==
    OfflineCall =>
        \A i, j \in CallEntries :
            (/\ InResult(i) /\ InResult(j)
             /\ SubstringMatch(call.query, callText(i))
             /\ ~SubstringMatch(call.query, callText(j)))
            => PlaceOf(i) < PlaceOf(j)

\* C6: an index is in the result of offlineSearch(q) exactly when its text is
\* not empty and q occurs in it, or a query token of 3+ characters occurs in
\* it, or bestTokenDistance(q, text) <= 2; and it is there once.
C6_Matched(i) ==
    /\ callText(i) # <<>>
    /\ \/ Occurs(call.query, callText(i))
       \/ OverlapTokens(call.query, callText(i)) # {}
       \/ bestTokenDistance(call.query, callText(i)) <= 2

C6_ResultIsTheMatches ==
    OfflineCall =>
        /\ \A i \in CallEntries : InResult(i) <=> C6_Matched(i)
        /\ \A k \in DOMAIN call.indices : call.indices[k] \in CallEntries
        /\ \A x, y \in DOMAIN call.indices : x # y => call.indices[x] # call.indices[y]

\* an entry in the result for its distance of 2 alone, beside one with text
\* that no tier matches
C6_Witness ==
    /\ OfflineCall
    /\ \E i, j \in CallEntries :
          /\ InResult(i)
          /\ NearMatchOnly(call.query, callText(i))
          /\ bestTokenDistance(call.query, callText(i)) = 2
          /\ callText(j) # <<>>
          /\ ~InResult(j)

(***************************************************************************)
(* One entry: the tokens of hay that bestTokenDistance compares with q.    *)
(***************************************************************************)
entTokens == hayTokens(entHay)

\* the distance of q and t counted up to 3
Capped(q, t) ==
    IF Abs(Len(q) - Len(t)) > 2 THEN 3
    ELSE Min2(trueLevenshteinDistance(q, t), 3)

\* the places, among the first 80 tokens, of the tokens whose length is
\* within 2 of the query's
Examined == {k \in 1..Min2(Len(entTokens), 80) : Abs(Len(entTokens[k]) - Len(entQ)) <= 2}

ExaminedDistances == {Capped(entQ, entTokens[k]) : k \in Examined}

Least(S) == CHOOSE d \in S : \A e \in S : d <= e

\* C7 as stated: bestTokenDistance returns the least distance found when an
\* examined token is within 2 of q, and 99 whenever none is, also when tokens
\* were examined and all exceeded the bound.
C7_SentinelWheneverNoneWithin ==
    entDone =>
        entBest = IF \E d \in ExaminedDistances : d <= 2
                  THEN Least(ExaminedDistances) ELSE 99

\* C7 amended: bestTokenDistance returns the least bounded distance of the
\* examined tokens, which is 3 when all of them exceed the bound, and 99
\* only when no token was examined; it is above 2 exactly when no examined
\* token is within 2 of q.
C7_LeastOrAboveBound ==
    entDone =>
        /\ entBest = IF Examined = {} THEN 99 ELSE Least(ExaminedDistances)
        /\ entBest > 2 <=> ~(\E d \in ExaminedDistances : d <= 2)

\* tokens were compared and all of them exceeded the bound: the result is 3
C7_Witness ==
    /\ entDone
    /\ Examined # {}
    /\ \A d \in ExaminedDistances : d > 2
    /\ entBest = 3

\* C8: bestTokenDistance looks at the first 80 tokens only: a token within
\* distance 2 of q beyond them does not make the entry a near match, while q
\* occurring there, or a query token occurring there, still matches.
NearPlaces == {k \in DOMAIN entTokens : Capped(entQ, entTokens[k]) <= 2}

C8_FirstEightyTokens ==
    entDone =>
        /\ entBest <= 2 <=> (\E k \in NearPlaces : k <= 80)
        /\ NearMatchOnly(entQ, entHay) =>
              (entScore # Infinity <=> (\E k \in NearPlaces : k <= 80))
        /\ SubstringMatch(entQ, entHay) => entScore # Infinity
        /\ OverlapMatch(entQ, entHay) => entScore # Infinity

\* the only token near q is the 81st, and the entry is not matched
C8_Witness ==
    /\ entDone
    /\ NearPlaces = {81}
    /\ NearMatchOnly(entQ, entHay)
    /\ entScore = Infinity

\* C9: the counts of the token-overlap tier
AllTokens == Len(queryTokens(entQ))
KeptTokens == Cardinality({k \in DOMAIN queryTokens(entQ) : Len(queryTokens(entQ)[k]) >= 3})
Hits == Cardinality(OverlapTokens(entQ, entHay))

\* C9 as stated: when q does not occur in the text and hits > 0, the score is
\* 1 - hits / max(1, n) with n the number of query tokens of 3+ characters,
\* so an entry containing all of these scores 0.
C9_DenominatorCountsKeptTokens ==
    (entDone /\ OverlapMatch(entQ, entHay)) =>
        /\ FracEq(entScore, Frac(Max2(1, KeptTokens) - Hits, Max2(1, KeptTokens)))
        /\ Hits = KeptTokens => FracEq(entScore, Frac(0, 1))

\* C9 amended: the score is 1 - hits / max(1, n) with n the number of all the
\* whitespace-separated query tokens, those under 3 characters included; it
\* lies in [0, 1) and is 0 exactly when every query token has 3+ characters
\* and occurs in the text.
C9_DenominatorCountsAllTokens ==
    (entDone /\ OverlapMatch(entQ, entHay)) =>
        /\ FracEq(entScore, Frac(Max2(1, AllTokens) - Hits, Max2(1, AllTokens)))
        /\ FracLeq(Frac(0, 1), entScore)
        /\ FracLess(entScore, Frac(1, 1))
        /\ FracEq(entScore, Frac(0, 1)) <=> Hits = AllTokens

\* every query token of 3+ characters occurs in the text and the query has
\* a shorter token too
C9_Witness ==
    /\ entDone
    /\ OverlapMatch(entQ, entHay)
    /\ Hits = KeptTokens
    /\ KeptTokens < AllTokens

\* C10: an entry gets an edit-distance score only when q does not occur in
\* it and no query token does; it is then in the result exactly when
\* bestTokenDistance(q, text) <= 2, with score 2 + distance / 10 in
\* [2.0, 2.2], after every entry matched by substring or by token overlap.
C10_NearMatchTier ==
    OfflineCall =>
        \A i \in CallEntries :
            LET hay == callText(i)
                d == bestTokenDistance(call.query, hay)
            IN /\ (hay # <<>> /\ NearMatchOnly(call.query, hay)) =>
                    /\ InResult(i) <=> d <= 2
                    /\ InResult(i) =>
                          /\ FracEq(callScore(i), Frac(20 + d, 10))
                          /\ FracLeq(Frac(20, 10), callScore(i))
                          /\ FracLeq(callScore(i), Frac(22, 10))
                          /\ \A j \in CallEntries :
                                (InResult(j) /\ ~NearMatchOnly(call.query, callText(j)))
                                    => PlaceOf(j) < PlaceOf(i)
               /\ (InResult(i) /\ ~NearMatchOnly(call.query, hay)) =>
                     FracLess(callScore(i), Frac(20, 10))

\* "aple" searched: "a red apple fruit" is in the result at distance 1, after
\* an entry that holds "aple" and comes later in the corpus
C10_Witness ==
    /\ OfflineCall
    /\ call.query = sAple
    /\ \E i, j \in CallEntries :
          /\ i < j
          /\ callText(i) = norm(<<"a", " ">> \o sRed \o sp \o sApple \o <<" ", "f", "r", "u", "i", "t">>)
          /\ InResult(i) /\ InResult(j)
          /\ FracEq(callScore(i), Frac(21, 10))
          /\ SubstringMatch(call.query, callText(j))
          /\ PlaceOf(j) < PlaceOf(i)

(***************************************************************************)
(* The exact-substring tier.                                               *)
(***************************************************************************)
\* the 0-based position of the first occurrence of q in hay
FirstAt(q, hay) ==
    CHOOSE p \in 0..(Len(hay) - Len(q)) :
        /\ SubSeq(hay, p + 1, p + Len(q)) = q
        /\ \A r \in 0..(p - 1) : SubSeq(hay, r + 1, r + Len(q)) # q

\* C11: an entry in which the query occurs scores p / 10000, p being the
\* position of the first occurrence, and of two such entries the one with
\* the earlier first occurrence ranks first, whatever their corpus order.
C11_EarlierOccurrenceFirst ==
    OfflineCall =>
        \A i, j \in CallEntries :
            (/\ SubstringMatch(call.query, callText(i))
             /\ SubstringMatch(call.query, callText(j)))
            => /\ InResult(i)
               /\ FracEq(callScore(i),
                         Frac(FirstAt(call.query, callText(i)), 10000))
               /\ FirstAt(call.query, callText(i)) < FirstAt(call.query, callText(j))
                     => PlaceOf(i) < PlaceOf(j)

\* the query occurs later in the first entry of the corpus than in the
\* second, and the second is returned first
C11_Witness ==
    /\ OfflineCall
    /\ Len(call.ws) = 2
    /\ SubstringMatch(call.query, callText(0))
    /\ SubstringMatch(call.query, callText(1))
    /\ FirstAt(call.query, callText(0)) > FirstAt(call.query, callText(1))
    /\ call.indices = <<1, 0>>

(***************************************************************************)
(* norm.                                                                   *)
(***************************************************************************)
\* C12: norm never fails, norm(norm(s)) = norm(s) for every s, null
\* included, and norm(s) holds no combining mark of U+0300-U+036F, no
\* uppercase letter and no whitespace at either end.
C12_IdempotentAndClean ==
    normAgain # NotCalled =>
        /\ normAgain = normOut
        /\ \A k \in DOMAIN normOut :
              normOut[k] \notin CombiningMarks \cup Range(UpperLetters)
        /\ normOut # <<>> =>
              normOut[1] \notin Whitespace /\ normOut[Len(normOut)] \notin Whitespace

(***************************************************************************)
(* The corpus and the deck under the handlers of the page.                 *)
(***************************************************************************)
\* every entry has its own index and the search text of its fields
WordsAsLoaded ==
    \A k \in DOMAIN words :
        /\ words[k].__i = k - 1
        /\ words[k]._search = buildSearchText(words[k].w)

\* C13: once the corpus is loaded no handler changes state.words, so every
\* entry keeps its index and its _search, which is buildSearchText of the
\* entry.
C13_CorpusFrozen ==
    /\ []WordsAsLoaded
    /\ [][loadState = "ok" => words' = words]_vars

\* a loaded corpus of two entries after a filter change, a language change,
\* a blind-mode toggle, a search and steps through the deck
C13_Witness ==
    /\ loadState = "ok"
    /\ Len(words) = 2
    /\ WordsAsLoaded
    /\ filter = "verb"
    /\ frontLang = "fr"
    /\ blindMode
    /\ searchOpen
    /\ suggestions # <<>>
    /\ Cardinality(seen) = 2

(***************************************************************************)
(* The two matchers.                                                       *)
(***************************************************************************)
\* C14: state.fuse is set exactly when loadWords found window.Fuse to be a
\* function; without it a query of 3+ characters gets the result of
\* offlineSearch, with it the Fuse matcher is asked instead; either way the
\* result is a sequence of corpus indices in 0 .. n-1.
C14_FallbackWithoutFuse ==
    /\ fuse <=> (loadState = "ok" /\ windowFuse)
    /\ call.made =>
          /\ call.fz => fuse
          /\ \A k \in DOMAIN call.indices :
                call.indices[k] \in 0..(Len(call.ws) - 1)
          /\ Len(call.query) >= 3 =>
                IF call.fz
                THEN call.called = {"fuse.search"}
                ELSE /\ call.called = {"offlineSearch"}
                     /\ call.indices = offlineSearch(call.query, searchTexts(call.ws))

\* the page loaded without window.Fuse and a query of 3+ characters answered
\* by offlineSearch with both entries of the corpus
C14_Witness ==
    /\ loadState = "ok"
    /\ ~windowFuse
    /\ call.made
    /\ Len(call.query) >= 3
    /\ call.called = {"offlineSearch"}
    /\ Len(call.ws) = 2
    /\ Len(call.indices) = 2

(***************************************************************************)
(* The rows of the distance table.                                         *)
(***************************************************************************)
LeastOfRow(row) == Least({row[j] : j \in DOMAIN row})

\* C15: the least value of a row of the table is never below the least
\* value of the row before it, so the abort on a row minimum above max is
\* taken only when the true distance is above max, and a distance within
\* max is returned as it is.
C15_RowMinimaNeverDecrease ==
    Done =>
        /\ (levA # <<>> /\ levB # <<>>) =>
              \A i \in 1..Len(levA) :
                  LeastOfRow(tableRow(levA, levB, i))
                      >= LeastOfRow(tableRow(levA, levB, i - 1))
        /\ levenshteinRun(levA, levB, levMax).exit = "rowMin" =>
              trueLevenshteinDistance(levA, levB) > levMax
        /\ trueLevenshteinDistance(levA, levB) <= levMax =>
              levOut = trueLevenshteinDistance(levA, levB)

\* the abort taken before the last row, after a row whose least value was
\* above that of the row before it
C15_Witness ==
    /\ Done
    /\ levenshteinRun(levA, levB, levMax).exit = "rowMin"
    /\ levMax >= 1
    /\ \E i \in 1..(Len(levA) - 1) :
          /\ LeastOfRow(tableRow(levA, levB, i)) > levMax
          /\ LeastOfRow(tableRow(levA, levB, i))
                 > LeastOfRow(tableRow(levA, levB, i - 1))
          /\ LeastOfRow(tableRow(levA, levB, i - 1)) <= levMax

(***************************************************************************)
(* The search panel and the deck.                                          *)
(***************************************************************************)
\* C16: opening the search, closing it, typing in the search field and
\* clearing it leave state.deck and state.currentIndex as they are; a
\* selection puts the selected entry on the current card.
C16_SearchLeavesDeck ==
    [][/\ (OpenSearch \/ CloseSearch \/ SearchInput \/ SearchClear)
            => UNCHANGED <<deck, currentIndex>>
       /\ SuggestionClick
            => \E k \in DOMAIN suggestions :
                  deck'[currentIndex' + 1] = suggestions[k]]_vars

\* the search open on a typed query with suggestions shown, the deck of two
\* cards standing at its second card
C16_Witness ==
    /\ searchOpen
    /\ searchQuery # <<>>
    /\ suggestions # <<>>
    /\ Len(deck) = 2
    /\ currentIndex = 1

\* C18: whenever the deck is not empty state.currentIndex is one of its
\* positions; next and prev step by one and wrap at the ends of the deck,
\* and leave everything as it is when the deck is empty.
C18_CurrentIndexInDeck ==
    /\ [](Len(deck) > 0 => currentIndex \in 0..(Len(deck) - 1))
    /\ [][/\ next =>
               IF Len(deck) = 0 THEN UNCHANGED <<deck, currentIndex>>
               ELSE /\ deck' = deck
                    /\ currentIndex' =
                          IF currentIndex = Len(deck) - 1 THEN 0
                          ELSE currentIndex + 1
          /\ prev =>
               IF Len(deck) = 0 THEN UNCHANGED <<deck, currentIndex>>
               ELSE /\ deck' = deck
                    /\ currentIndex' =
                          IF currentIndex = 0 THEN Len(deck) - 1
                          ELSE currentIndex - 1]_vars

\* a deck of two cards under a type filter standing on its last card, from
\* which next wraps, a search having been made and closed
C18_Witness ==
    /\ Len(deck) = 2
    /\ currentIndex = 1
    /\ filter # "all"
    /\ searchQuery # <<>>
    /\ ~searchOpen
    /\ Cardinality(seen) = 2

\* the corpus indices of ws whose type the filter flt lets through
MatchingIndices(ws, flt) ==
    {i \in 0..(Len(ws) - 1) : flt = "all" \/ ws[i + 1].w.type = flt}

\* dk holds every index of S once and nothing else
IsArrangementOf(dk, S) ==
    /\ Len(dk) = Cardinality(S)
    /\ {dk[k] : k \in DOMAIN dk} = S

DeckMatchesFilter(dk, ws, flt) == IsArrangementOf(dk, MatchingIndices(ws, flt))

\* C19 as stated: state.deck is always an arrangement of exactly the corpus
\* indices whose type matches the current filter.
C19_DeckIsTheFilteredCorpus ==
    loadState = "ok" => DeckMatchesFilter(deck, words, filter)

\* C19: state.deck never holds an index twice nor anything but a corpus
\* index.  It is an arrangement of exactly the indices matching the filter
\* until a suggestion is selected that the deck does not hold, which takes a
\* filter change made while the suggestions were shown; from then on it is
\* that one entry alone, of whatever type, until the next filter change.
C19_DeckIsFilteredOrSelection ==
    /\ [](\/ DeckMatchesFilter(deck, words, filter)
          \/ Len(deck) = 1 /\ deck[1] \in 0..(Len(words) - 1))
    /\ [][/\ (DeckMatchesFilter(deck, words, filter)
              /\ ~DeckMatchesFilter(deck', words', filter'))
                => /\ SuggestionClick
                   /\ arrayIndexOf(deck, deck'[1]) = -1
                   /\ \E k \in DOMAIN suggestions : suggestions[k] = deck'[1]
          /\ (FilterClick \/ LoadWords)
                => DeckMatchesFilter(deck', words', filter')]_vars

\* the filter is on nouns and the deck is one verb, selected from
\* suggestions that were drawn before the filter changed
C19_Witness ==
    /\ loadState = "ok"
    /\ filter = "noun"
    /\ Len(deck) = 1
    /\ words[deck[1] + 1].w.type = "verb"
    /\ ~searchOpen

(***************************************************************************)
(* The service worker and words.json.                                      *)
(***************************************************************************)
\* C17: a fetch of words.json is answered with the network response when
\* the network answers, and that response is stored in the data cache only
\* when it is ok; when the network fails the answer is the response cached
\* before, or a response of body "[]" when there is none; the handler
\* always answers.
C17_NetworkFirstWords ==
    IsWordsPath(swRequest.url) =>
        /\ swResponse # NoResponse
        /\ swNetwork # NetworkError =>
              /\ swResponse = swNetwork
              /\ dataCache[swRequest.url] = IF swNetwork.ok THEN swNetwork ELSE swHad
        /\ swNetwork = NetworkError =>
              /\ swResponse = IF swHad # NoResponse THEN swHad ELSE EmptyJson
              /\ dataCache[swRequest.url] = swHad

\* the network failed and the handler answered with the copy an earlier
\* fetch had stored
C17_Witness ==
    /\ IsWordsPath(swRequest.url)
    /\ swNetwork = NetworkError
    /\ swHad.ok
    /\ swHad.body \in NetworkBodies
    /\ swResponse = swHad

(***************************************************************************)
(* The scores of the edit-distance tier.                                   *)
(***************************************************************************)
\* C20: no entry is scored exactly 2: bestTokenDistance is not 0 when the
\* query does not occur in the text, and an entry that only the edit
\* distance matches is scored 2.1 or 2.2.
C20_NoScoreOfTwo ==
    entDone =>
        /\ ~FracEq(entScore, Frac(2, 1))
        /\ ~Occurs(entQ, entHay) => entBest # 0
        /\ (NearMatchOnly(entQ, entHay) /\ entScore # Infinity) =>
              \/ FracEq(entScore, Frac(21, 10))
              \/ FracEq(entScore, Frac(22, 10))

\* a text of two tokens or more, one of them one edit away from the query,
\* scored 2.1
C20_Witness ==
    /\ entDone
    /\ NearMatchOnly(entQ, entHay)
    /\ entBest = 1
    /\ FracEq(entScore, Frac(21, 10))
    /\ Len(hayTokens(entHay)) >= 2

(***************************************************************************)
(* The token-overlap tier and queries of one token.                        *)
(***************************************************************************)
\* q holds no whitespace, so q.split(/\s+/) is the one token q
NoWhitespace(q) == \A k \in DOMAIN q : q[k] \notin Whitespace

\* C21: for a normalized query without whitespace an entry is returned only
\* by the substring tier, scored pos / 10000, or by the edit-distance tier,
\* scored 2 + best / 10 with best <= 2; a text in which the query does not
\* occur while one of its tokens of 3+ characters does is met only by
\* queries of two tokens or more.
C21_SingleTokenSkipsOverlap ==
    entDone =>
        /\ (NoWhitespace(entQ) /\ entScore # Infinity) =>
              \/ /\ Occurs(entQ, entHay)
                 /\ entScore = substringScore(indexOf(entHay, entQ))
              \/ /\ ~Occurs(entQ, entHay)
                 /\ entBest <= SearchBound
                 /\ entScore = Frac(20 + entBest, 10)
        /\ OverlapMatch(entQ, entHay) => Len(queryTokens(entQ)) >= 2

\* a query of one token that does not occur in the text and lies two edits
\* from one of its tokens, returned with the score 2.2
C21_Witness ==
    /\ entDone
    /\ NoWhitespace(entQ)
    /\ Len(queryTokens(entQ)) = 1
    /\ ~Occurs(entQ, entHay)
    /\ entBest = 2
    /\ entScore = Frac(22, 10)

====
